---- MODULE Spec2Model ----
(***************************************************************************)
(* Model of main.py: a news-text image finder.  The program reads its      *)
(* configuration from the environment, asks a language model for search    *)
(* keywords, queries one of two image-search providers through a           *)
(* retry-wrapped HTTP GET, asks the language model for a relevance score   *)
(* per candidate image and prints the best one.                            *)
(*                                                                         *)
(* Python values are represented as follows.                               *)
(*   - a str-or-None scalar is a TLA+ string, None being the reserved      *)
(*     string None (no input string of the model equals it);               *)
(*   - a dict is a record (a function on its keys), {} being << >>;         *)
(*     a dict-or-None object uses the record NoneObj for None;             *)
(*   - a text that the program parses is a sequence of one-character       *)
(*     strings;                                                            *)
(*   - a float is a record [k, m, e]: k is "nan", "ninf", "pinf" or "num", *)
(*     and a "num" is the decimal m * 10^(-e) in canonical form.           *)
(***************************************************************************)
EXTENDS Integers, Sequences, FiniteSets, TLC

(***************************************************************************)
(* Bounds of the model.                                                    *)
(***************************************************************************)
\* largest max_retries argument explored for make_request_with_retries
MaxRetries == 5
\* longest candidate sequence handed to evaluate_relevance on its own
MaxImages == 2
\* longest item list a provider response carries in a whole run of main
MaxItems == 2

(***************************************************************************)
(* Python scalars.                                                         *)
(***************************************************************************)
None == "None"

NoneObj == [none |-> TRUE]

\* a test for None alone, which lets the empty string through
TruthyNotNone(v) == v # None

\* bool(v) of a str-or-None value
Truthy(v) == v # None /\ v # ""

\* d.get(k): the value under k, None when the key is absent
Get(d, k) == IF k \in DOMAIN d THEN d[k] ELSE None

\* d.get(k, default)
GetDefault(d, k, default) == IF k \in DOMAIN d THEN d[k] ELSE default

(***************************************************************************)
(* float(score_text.strip()).  The grammar covered: optional surrounding   *)
(* whitespace, an optional sign, then either inf / infinity / nan in any   *)
(* letter case or decimal digits with at most one point and at least one   *)
(* digit.  (Exponents and digit-group underscores are not among the texts  *)
(* of the model.)                                                          *)
(***************************************************************************)
Whitespace == {" ", "\n", "\t"}

Digits == <<"0", "1", "2", "3", "4", "5", "6", "7", "8", "9">>

IsDigit(c) == \E i \in 1..10 : Digits[i] = c

DigitVal(c) == (CHOOSE i \in 1..10 : Digits[i] = c) - 1

Lower(c) ==
    CASE c = "I" -> "i" [] c = "N" -> "n" [] c = "F" -> "f" [] c = "A" -> "a"
      [] c = "T" -> "t" [] c = "Y" -> "y" [] OTHER -> c

LowerAll(s) == [i \in 1..Len(s) |-> Lower(s[i])]

RECURSIVE LStrip(_)
LStrip(s) == IF s # <<>> /\ Head(s) \in Whitespace THEN LStrip(Tail(s)) ELSE s

RECURSIVE RStrip(_)
RStrip(s) ==
    IF s # <<>> /\ s[Len(s)] \in Whitespace THEN RStrip(SubSeq(s, 1, Len(s) - 1)) ELSE s

\* str.strip()
Strip(s) == RStrip(LStrip(s))

RECURSIVE Pow10(_)
Pow10(n) == IF n = 0 THEN 1 ELSE 10 * Pow10(n - 1)

RECURSIVE DigitsToInt(_)
DigitsToInt(s) ==
    IF s = <<>> THEN 0 ELSE 10 * DigitsToInt(SubSeq(s, 1, Len(s) - 1)) + DigitVal(s[Len(s)])

RECURSIVE DropTrailingZeros(_)
DropTrailingZeros(s) ==
    IF s # <<>> /\ s[Len(s)] = "0" THEN DropTrailingZeros(SubSeq(s, 1, Len(s) - 1)) ELSE s

Num(m, e) == [k |-> "num", m |-> m, e |-> e]
NaN == [k |-> "nan", m |-> 0, e |-> 0]
NegInf == [k |-> "ninf", m |-> 0, e |-> 0]
PosInf == [k |-> "pinf", m |-> 0, e |-> 0]
\* the result of a failed parse: ValueError
ParseError == [k |-> "error", m |-> 0, e |-> 0]

AllDigits(s) == \A i \in 1..Len(s) : IsDigit(s[i])

\* an unsigned decimal literal: digits [ "." digits ], with at least one digit
ParseDecimal(s, negative) ==
    LET points == {i \in 1..Len(s) : s[i] = "."}
        p == IF points = {} THEN Len(s) + 1 ELSE CHOOSE i \in points : TRUE
        intpart == SubSeq(s, 1, p - 1)
        fracpart == DropTrailingZeros(SubSeq(s, p + 1, Len(s)))
        mag == DigitsToInt(intpart \o fracpart)
    IN  IF Cardinality(points) > 1 \/ Len(s) - Cardinality(points) = 0
           \/ ~AllDigits(SubSeq(s, 1, p - 1)) \/ ~AllDigits(SubSeq(s, p + 1, Len(s)))
        THEN ParseError
        ELSE Num(IF negative THEN 0 - mag ELSE mag, Len(fracpart))

\* float(s): a float, or ParseError where Python raises ValueError
ParseFloat(s) ==
    LET t == Strip(s)
        signed == t # <<>> /\ Head(t) \in {"+", "-"}
        negative == t # <<>> /\ Head(t) = "-"
        body == IF signed THEN Tail(t) ELSE t
        word == LowerAll(body)
    IN  IF word = <<"n", "a", "n">> THEN NaN
        ELSE IF word = <<"i", "n", "f">>
                \/ word = <<"i", "n", "f", "i", "n", "i", "t", "y">>
        THEN (IF negative THEN NegInf ELSE PosInf)
        ELSE ParseDecimal(body, negative)

\* a > b on floats: every comparison with nan is false
Gt(a, b) ==
    /\ a.k # "nan" /\ b.k # "nan"
    /\ \/ a.k = "pinf" /\ b.k # "pinf"
       \/ a.k = "num" /\ b.k = "ninf"
       \/ a.k = "num" /\ b.k = "num" /\ a.m * Pow10(b.e) > b.m * Pow10(a.e)

(***************************************************************************)
(* Inputs of the model: what the environment, the user, the language model *)
(* and the providers may supply.                                           *)
(***************************************************************************)
\* values of a credential variable: unset, or set
Credentials == {None, "key"}

\* values of OPENAI_API_KEY: unset, set to the empty string, or set
OpenAIKeys == {None, "", "sk-key"}

\* values of SEARCH_ENGINE
SearchEngines == {None, "google", "duckduckgo", "bing"}

NewsTexts == {"Wildfires spread across the region"}

\* completions of the keyword prompt
KeywordCompletions == {<<" ", "f", "i", "r", "e", "\n">>}

\* completions of the scoring prompt
ScoreTexts ==
    { <<"7">>, <<" ", "9", "\n">>, <<"h", "i", "g", "h">>, <<>>, <<"N", "/", "A">>,
      <<"-", "3">>, <<"-", "i", "n", "f">>, <<"n", "a", "n">> }

\* the default of image.get('title', ...), 'Нет описания' in the source
NO_DESCRIPTION == "Net opisaniya"

Fire1 == [link |-> "http://a/1.jpg", title |-> "Fire1"]
Fire2 == [link |-> "http://a/2.jpg", title |-> "Fire2"]
ThumbOnly == [thumbnail |-> "http://t/3.jpg"]
EmptyLink == [link |-> "", thumbnail |-> "http://t/4.jpg", title |-> ""]
NoUrl == [title |-> "NoUrl"]
BlankUrl == [link |-> "", title |-> "Blank"]

\* candidate dicts handed to evaluate_relevance on its own
ImagePool == <<Fire1, Fire2, ThumbOnly, EmptyLink, NoUrl, BlankUrl>>

\* candidate dicts a provider returns in a whole run of main
ItemPool == <<Fire1, Fire2, NoUrl>>

\* all sequences of at most n elements of the pool
SeqsUpTo(pool, n) ==
    UNION {[1..len -> {pool[i] : i \in 1..Len(pool)}] : len \in 0..n}

\* JSON bodies of a 2xx provider response
ProviderBodies ==
    {<< >>, [error |-> "quota"]}
        \cup {[items |-> s] : s \in SeqsUpTo(ItemPool, MaxItems)}
        \cup {[images_results |-> s] : s \in SeqsUpTo(ItemPool, MaxItems)}

\* kinds of failure that raise RequestException: requests.get raising (timeout,
\* connection refused, DNS failure), or raise_for_status on a 4xx/5xx other than 429
ErrorKinds == {"exception", "http_error"}

(***************************************************************************)
(* State.                                                                  *)
(***************************************************************************)
VARIABLES
    OPENAI_API_KEY, SEARCH_ENGINE, GOOGLE_API_KEY, GOOGLE_CSE_ID, SERPAPI_API_KEY,
    stack,        \* the active function calls, outermost first
    pc,           \* the position in the innermost call
    exit_code,    \* << >> while the process runs, <<c>> once it has exited with c
    text,         \* the news text read from standard input, None before
    keywords,     \* main: the query extract_keywords returned, empty before
    images,       \* the candidate sequence (main's images, evaluate_relevance's argument)
    url,          \* make_request_with_retries: its url argument
    params,       \* make_request_with_retries: its params argument
    max_retries,  \* make_request_with_retries: its max_retries argument
    attempt,      \* make_request_with_retries: the loop variable
    data,         \* what make_request_with_retries returned: a JSON body or NoneObj
    idx,          \* evaluate_relevance: the position of the loop in images
    score,        \* evaluate_relevance: the score of the last candidate compared
    best_score,   \* evaluate_relevance: the running maximum
    best_image,   \* evaluate_relevance's best_image, then main's
    gets,         \* the number of requests.get calls made
    responses,    \* the outcomes of the GETs of the current fetch, in order
    sleeps,       \* the durations passed to time.sleep, in order
    llm_calls,    \* the prompts passed to llm.invoke, in order
    completions,  \* per candidate visited: the completion text received, or NoCompletion
    scores,       \* per candidate visited: the score compared, or Skipped
    reports       \* the outcomes main printed, in order

env == <<OPENAI_API_KEY, SEARCH_ENGINE, GOOGLE_API_KEY, GOOGLE_CSE_ID, SERPAPI_API_KEY>>
control == <<stack, pc, exit_code>>
mainVars == <<text, keywords, reports>>
fetchVars == <<url, params, max_retries, attempt, data, gets, responses, sleeps>>
evalVars == <<idx, score, best_score, best_image, llm_calls, completions, scores>>
vars == <<env, control, mainVars, images, fetchVars, evalVars>>

\* the entry of scores for a candidate without a usable URL
Skipped == [k |-> "skipped", m |-> 0, e |-> 0]

\* the entry of completions for a candidate without a usable URL (no text of the
\* model holds it: their elements are single characters)
NoCompletion == <<"skipped">>

\* no score computed yet
NoScore == [k |-> "none", m |-> 0, e |-> 0]

DEFAULT_MAX_RETRIES == 5

\* the locals of the three functions before any of them ran
InitLocals ==
    /\ exit_code = << >>
    /\ keywords = << >> /\ reports = << >>
    /\ url = None /\ params = << >> /\ attempt = 0 /\ data = NoneObj
    /\ gets = 0 /\ responses = << >> /\ sleeps = << >>
    /\ idx = 1 /\ score = NoScore /\ best_score = NegInf /\ best_image = NoneObj
    /\ llm_calls = << >> /\ completions = << >> /\ scores = << >>

\* the process starts main with any environment
Init ==
    /\ OPENAI_API_KEY \in OpenAIKeys
    /\ SEARCH_ENGINE \in SearchEngines
    /\ GOOGLE_API_KEY \in Credentials
    /\ GOOGLE_CSE_ID \in Credentials
    /\ SERPAPI_API_KEY \in Credentials
    /\ stack = <<"main">> /\ pc = "config"
    /\ text = None /\ images = << >> /\ max_retries = DEFAULT_MAX_RETRIES
    /\ InitLocals

(***************************************************************************)
(* Calls and returns.                                                      *)
(***************************************************************************)
Top == stack[Len(stack)]

In(f, at) == exit_code = << >> /\ stack # << >> /\ Top = f /\ pc = at

Pop == SubSeq(stack, 1, Len(stack) - 1)

\* main resumes at the test of the search result after the scorer as well, which
\* takes the run back from scoring to the end of the search
ResumePointBackToSearch ==
    IF Len(stack) < 2 THEN "returned"
    ELSE IF Top = "make_request_with_retries" THEN "data"
    ELSE "images"

\* where the caller resumes once the innermost call returns
ResumePoint ==
    IF Len(stack) < 2 THEN "returned"
    ELSE IF Top = "make_request_with_retries" THEN "data"
    ELSE IF Top = "evaluate_relevance" THEN "best"
    ELSE "images"

\* return from the innermost call
Return == stack' = Pop /\ pc' = ResumePoint /\ exit_code' = exit_code

\* sys.exit(code)
Exit(code) == exit_code' = <<code>> /\ stack' = stack /\ pc' = pc

(***************************************************************************)
(* make_request_with_retries(url, params, max_retries=5)                   *)
(***************************************************************************)
\* a backoff that grows linearly instead of doubling
BackoffLinear(a) == 2 * a

\* the argument of time.sleep after the failed attempt
Backoff(a) == 2 ^ a

\* a loop bound that is off by one: range(max_retries + 1)
MoreAttemptsOffByOne == attempt <= max_retries

\* one more iteration of "for attempt in range(max_retries)"
MoreAttempts == attempt < max_retries

\* a failed attempt where only a 429 backs off exponentially: after an error the
\* sleep lasts one unit
FailedAttemptFixedDelayOnError(kind) ==
    /\ gets' = gets + 1
    /\ responses' = Append(responses, [kind |-> kind])
    /\ sleeps' = Append(sleeps, IF kind = "429" THEN Backoff(attempt) ELSE 1)
    /\ attempt' = attempt + 1
    /\ UNCHANGED <<env, control, mainVars, images, evalVars, url, params, max_retries, data>>

\* a failed attempt that does not sleep before the loop ends
FailedAttemptNoTrailingSleep(kind) ==
    /\ gets' = gets + 1
    /\ responses' = Append(responses, [kind |-> kind])
    /\ sleeps' = IF attempt + 1 < max_retries THEN Append(sleeps, Backoff(attempt))
                 ELSE sleeps
    /\ attempt' = attempt + 1
    /\ UNCHANGED <<env, control, mainVars, images, evalVars, url, params, max_retries, data>>

\* a failed attempt: sleep, then go on with the next value of attempt
FailedAttempt(kind) ==
    /\ gets' = gets + 1
    /\ responses' = Append(responses, [kind |-> kind])
    /\ sleeps' = Append(sleeps, Backoff(attempt))
    /\ attempt' = attempt + 1
    /\ UNCHANGED <<env, control, mainVars, images, evalVars, url, params, max_retries, data>>

\* the response has status 429: sleep and continue
FetchRateLimited ==
    /\ In("make_request_with_retries", "loop")
    /\ MoreAttempts
    /\ FailedAttempt("429")

\* requests.get or raise_for_status raises RequestException: sleep, next iteration
FetchError ==
    /\ In("make_request_with_retries", "loop")
    /\ MoreAttempts
    /\ \E kind \in ErrorKinds : FailedAttempt(kind)

\* a 2xx response: return response.json()
FetchOk ==
    /\ In("make_request_with_retries", "loop")
    /\ MoreAttempts
    /\ \E body \in ProviderBodies :
          /\ gets' = gets + 1
          /\ responses' = Append(responses, [kind |-> "ok", body |-> body])
          /\ data' = body
    /\ Return
    /\ UNCHANGED <<env, mainVars, images, evalVars, url, params, max_retries, attempt, sleeps>>

\* the loop ran out of attempts and the failure escapes as an uncaught exception
FetchExhaustedRaises ==
    /\ In("make_request_with_retries", "loop")
    /\ ~MoreAttempts
    /\ Exit(1)
    /\ UNCHANGED <<env, mainVars, images, evalVars, fetchVars>>

\* the loop ran out of attempts: return None
FetchExhausted ==
    /\ In("make_request_with_retries", "loop")
    /\ ~MoreAttempts
    /\ data' = NoneObj
    /\ Return
    /\ UNCHANGED <<env, mainVars, images, evalVars, url, params, max_retries, attempt,
                   gets, responses, sleeps>>

(***************************************************************************)
(* search_images_google(query), search_images_duckduckgo(query)            *)
(***************************************************************************)
GOOGLE_URL == "https://www.googleapis.com/customsearch/v1"

SERPAPI_URL == "https://serpapi.com/search"

GoogleParams(query) ==
    [q |-> query, cx |-> GOOGLE_CSE_ID, key |-> GOOGLE_API_KEY, searchType |-> "image",
     num |-> 5]

DuckDuckGoParams(query) ==
    [q |-> query, engine |-> "duckduckgo", api_key |-> SERPAPI_API_KEY, no_html |-> "1",
     output |-> "json"]

\* bool(data) of a dict-or-None value
TruthyObj(d) == d # NoneObj /\ DOMAIN d # {}

\* "data.get(key, []) if data else []"
ResultList(d, key) == IF TruthyObj(d) THEN GetDefault(d, key, << >>) ELSE << >>

\* the adapter calls make_request_with_retries(url, params)
CallFetch(adapter, u, p) ==
    /\ stack' = stack \o <<adapter, "make_request_with_retries">>
    /\ pc' = "loop"
    /\ url' = u
    /\ params' = p
    /\ max_retries' = DEFAULT_MAX_RETRIES
    /\ attempt' = 0
    /\ responses' = << >>
    /\ UNCHANGED <<exit_code, reports>>

\* the adapter returns the list under key, or [] without data, to main
AdapterReturn(key) ==
    /\ images' = ResultList(data, key)
    /\ responses' = << >>
    /\ Return
    /\ UNCHANGED <<env, mainVars, evalVars, url, params, max_retries, attempt, data, gets,
                   sleeps>>

GoogleResult ==
    /\ In("search_images_google", "data")
    /\ AdapterReturn("items")

DuckDuckGoResult ==
    /\ In("search_images_duckduckgo", "data")
    /\ AdapterReturn("images_results")

(***************************************************************************)
(* evaluate_relevance(images, text)                                        *)
(***************************************************************************)
\* image.get('link') or image.get('thumbnail')
ImageUrl(image) ==
    IF Truthy(Get(image, "link")) THEN Get(image, "link") ELSE Get(image, "thumbnail")

\* "image.get('title') or ...": the placeholder also replaces an empty title
PickedTitleOrPlaceholder(image) ==
    [url |-> ImageUrl(image),
     description |-> IF Truthy(Get(image, "title")) THEN Get(image, "title")
                     ELSE NO_DESCRIPTION]

\* a pick that forgets the thumbnail fallback
PickedLinkOnly(image) ==
    [url |-> Get(image, "link"), description |-> GetDefault(image, "title", NO_DESCRIPTION)]

\* what best_image becomes when the candidate wins
Picked(image) ==
    [url |-> ImageUrl(image), description |-> GetDefault(image, "title", NO_DESCRIPTION)]

\* a parse failure that takes the candidate out of the comparison
ScoreOfDropMalformed(score_text) ==
    IF ParseFloat(Strip(score_text)) = ParseError THEN NegInf
    ELSE ParseFloat(Strip(score_text))

\* "try: score = float(score_text.strip()) except ValueError: score = 0"
ScoreOf(score_text) ==
    IF ParseFloat(Strip(score_text)) = ParseError THEN Num(0, 0)
    ELSE ParseFloat(Strip(score_text))

\* "if score >= best_score": a later equal score replaces the best
BetterOrEqual(s, best) == s.k # "nan" /\ best.k # "nan" /\ ~Gt(best, s)

\* "if score > best_score"
Better(s, best) == Gt(s, best)

ScorePrompt(t, image_url) == [op |-> "score", text |-> t, image_url |-> image_url]

\* the credential check and the initialisation of the running maximum
EvalEnter ==
    /\ In("evaluate_relevance", "enter")
    /\ IF ~Truthy(OPENAI_API_KEY)
       THEN /\ Exit(1)
            /\ UNCHANGED <<idx, best_score, best_image>>
       ELSE /\ best_image' = NoneObj
            /\ best_score' = NegInf
            /\ idx' = 1
            /\ pc' = "loop"
            /\ UNCHANGED <<stack, exit_code>>
    /\ UNCHANGED <<env, mainVars, images, fetchVars, score, llm_calls, completions, scores>>

\* a candidate without a usable URL: continue
EvalSkip ==
    /\ In("evaluate_relevance", "loop")
    /\ idx <= Len(images)
    /\ ~Truthy(ImageUrl(images[idx]))
    /\ idx' = idx + 1
    /\ completions' = Append(completions, NoCompletion)
    /\ scores' = Append(scores, Skipped)
    /\ UNCHANGED <<env, control, mainVars, images, fetchVars, score, best_score,
                   best_image, llm_calls>>

\* a candidate with a URL: one completion call, parse, compare with the maximum
EvalScore ==
    /\ In("evaluate_relevance", "loop")
    /\ idx <= Len(images)
    /\ Truthy(ImageUrl(images[idx]))
    /\ \E score_text \in ScoreTexts :
          /\ llm_calls' = Append(llm_calls, ScorePrompt(text, ImageUrl(images[idx])))
          /\ completions' = Append(completions, score_text)
          /\ score' = ScoreOf(score_text)
          /\ scores' = Append(scores, score')
          /\ IF Better(score', best_score)
             THEN best_score' = score' /\ best_image' = Picked(images[idx])
             ELSE UNCHANGED <<best_score, best_image>>
    /\ idx' = idx + 1
    /\ UNCHANGED <<env, control, mainVars, images, fetchVars>>

\* the loop also ends as soon as a candidate has scored 9 or more
EvalReturnEarly ==
    /\ In("evaluate_relevance", "loop")
    /\ idx > Len(images) \/ ~Gt(Num(9, 0), best_score)
    /\ Return
    /\ UNCHANGED <<env, mainVars, images, fetchVars, evalVars>>

\* the loop is over: return best_image
EvalReturn ==
    /\ In("evaluate_relevance", "loop")
    /\ idx > Len(images)
    /\ Return
    /\ UNCHANGED <<env, mainVars, images, fetchVars, evalVars>>

(***************************************************************************)
(* extract_keywords(text) and main()                                       *)
(***************************************************************************)
\* the credentials of both providers are asked for, whichever is selected
ProviderConfiguredBoth ==
    /\ SEARCH_ENGINE \in {"google", "duckduckgo"}
    /\ Truthy(GOOGLE_API_KEY) /\ Truthy(GOOGLE_CSE_ID) /\ Truthy(SERPAPI_API_KEY)

\* the credentials the selected provider needs are set
ProviderConfigured ==
    IF SEARCH_ENGINE = "google" THEN Truthy(GOOGLE_API_KEY) /\ Truthy(GOOGLE_CSE_ID)
    ELSE IF SEARCH_ENGINE = "duckduckgo" THEN Truthy(SERPAPI_API_KEY)
    ELSE FALSE

\* a check of the language-model credential alone
ConfigOkKeyOnly == Truthy(OPENAI_API_KEY)

\* none of the sys.exit(1) branches of main's configuration check is taken
ConfigOk == Truthy(OPENAI_API_KEY) /\ ProviderConfigured

KeywordPrompt(t) == [op |-> "keywords", text |-> t]

\* main returns: the interpreter exits with status 0
MainReturn == stack' = << >> /\ pc' = "done" /\ exit_code' = <<0>>

\* the checks of the API keys at the start of main
ConfigCheck ==
    /\ In("main", "config")
    /\ IF ConfigOk
       THEN pc' = "input" /\ UNCHANGED <<stack, exit_code>>
       ELSE Exit(1)
    /\ UNCHANGED <<env, mainVars, images, fetchVars, evalVars>>

\* text = input(...)
ReadInput ==
    /\ In("main", "input")
    /\ text' \in NewsTexts
    /\ pc' = "extract"
    /\ UNCHANGED <<env, stack, exit_code, keywords, reports, images, fetchVars, evalVars>>

\* keywords = extract_keywords(text): the credential check, one completion, strip
ExtractKeywords ==
    /\ In("main", "extract")
    /\ IF ~Truthy(OPENAI_API_KEY)
       THEN /\ Exit(1)
            /\ UNCHANGED <<keywords, llm_calls>>
       ELSE /\ \E completion \in KeywordCompletions :
                  /\ llm_calls' = Append(llm_calls, KeywordPrompt(text))
                  /\ keywords' = Strip(completion)
            /\ pc' = "search"
            /\ UNCHANGED <<stack, exit_code>>
    /\ UNCHANGED <<env, text, reports, images, fetchVars, idx, score, best_score,
                   best_image, completions, scores>>

\* the selection of the adapter, up to its call of make_request_with_retries
SearchImages ==
    /\ In("main", "search")
    /\ IF SEARCH_ENGINE = "google"
       THEN CallFetch("search_images_google", GOOGLE_URL, GoogleParams(keywords))
       ELSE IF SEARCH_ENGINE = "duckduckgo"
       THEN CallFetch("search_images_duckduckgo", SERPAPI_URL, DuckDuckGoParams(keywords))
       ELSE /\ MainReturn
            /\ UNCHANGED <<reports, url, params, max_retries, attempt, responses>>
    /\ UNCHANGED <<env, text, keywords, images, data, gets, sleeps, evalVars>>

\* "if not images": print that no images were found and return
ReportNoImages ==
    /\ In("main", "images")
    /\ images = << >>
    /\ reports' = Append(reports, [outcome |-> "no_images"])
    /\ MainReturn
    /\ UNCHANGED <<env, text, keywords, images, fetchVars, evalVars>>

\* the scorer is called without the test for an empty list
CallEvaluateAlways ==
    /\ In("main", "images")
    /\ stack' = stack \o <<"evaluate_relevance">>
    /\ pc' = "enter"
    /\ UNCHANGED <<env, exit_code, mainVars, images, fetchVars, evalVars>>

\* best_image = evaluate_relevance(images, text)
CallEvaluate ==
    /\ In("main", "images")
    /\ images # << >>
    /\ stack' = stack \o <<"evaluate_relevance">>
    /\ pc' = "enter"
    /\ UNCHANGED <<env, exit_code, mainVars, images, fetchVars, evalVars>>

\* only a pick is printed: without a best image main returns silently
ReportOnlySuccess ==
    /\ In("main", "best")
    /\ IF best_image # NoneObj
       THEN reports' = Append(reports,
                [outcome |-> "success", url |-> best_image.url,
                 description |-> best_image.description])
       ELSE reports' = reports
    /\ MainReturn
    /\ UNCHANGED <<env, text, keywords, images, fetchVars, evalVars>>

\* "if best_image": print the pick, else that no relevant image was selected
Report ==
    /\ In("main", "best")
    /\ IF best_image # NoneObj
       THEN reports' = Append(reports,
                [outcome |-> "success", url |-> best_image.url,
                 description |-> best_image.description])
       ELSE reports' = Append(reports, [outcome |-> "no_relevant"])
    /\ MainReturn
    /\ UNCHANGED <<env, text, keywords, images, fetchVars, evalVars>>

(***************************************************************************)
(* Specifications.                                                         *)
(***************************************************************************)
Next ==
    \/ ConfigCheck
    \/ ReadInput
    \/ ExtractKeywords
    \/ SearchImages
    \/ FetchRateLimited
    \/ FetchError
    \/ FetchOk
    \/ FetchExhausted
    \/ GoogleResult
    \/ DuckDuckGoResult
    \/ ReportNoImages
    \/ CallEvaluate
    \/ EvalEnter
    \/ EvalSkip
    \/ EvalScore
    \/ EvalReturn
    \/ Report

\* a run of the program
Spec == Init /\ [][Next]_vars

\* a run of the program that is not suspended for ever: the single thread goes on
\* while it has a step to take
FairSpec == Spec /\ WF_vars(Next)

\* a call of make_request_with_retries on its own, with any retry budget
InitFetch ==
    /\ OPENAI_API_KEY = "sk-key" /\ SEARCH_ENGINE = "google"
    /\ GOOGLE_API_KEY = "key" /\ GOOGLE_CSE_ID = "key" /\ SERPAPI_API_KEY = None
    /\ stack = <<"make_request_with_retries">> /\ pc = "loop"
    /\ text = None /\ images = << >>
    /\ max_retries \in 0..MaxRetries
    /\ InitLocals

NextFetch ==
    \/ FetchRateLimited
    \/ FetchError
    \/ FetchOk
    \/ FetchExhausted

SpecFetch == InitFetch /\ [][NextFetch]_vars

\* the same call, not suspended for ever
FairSpecFetch == SpecFetch /\ WF_vars(NextFetch)

\* a call of evaluate_relevance on its own, with any candidate sequence
InitEval ==
    /\ OPENAI_API_KEY \in {None, "sk-key"} /\ SEARCH_ENGINE = "google"
    /\ GOOGLE_API_KEY = "key" /\ GOOGLE_CSE_ID = "key" /\ SERPAPI_API_KEY = None
    /\ stack = <<"evaluate_relevance">> /\ pc = "enter"
    /\ images \in SeqsUpTo(ImagePool, MaxImages)
    /\ max_retries = DEFAULT_MAX_RETRIES
    /\ text \in NewsTexts
    /\ InitLocals

NextEval ==
    \/ EvalEnter
    \/ EvalSkip
    \/ EvalScore
    \/ EvalReturn

SpecEval == InitEval /\ [][NextEval]_vars

(***************************************************************************)
(* Properties of make_request_with_retries.                                *)
(***************************************************************************)
\* the call has returned to its caller
FetchReturned == stack = << >> /\ pc = "returned"

\* the responses of the call: k times status 429, then a 2xx
RateLimitedThenOk(k) ==
    /\ Len(responses) = k + 1
    /\ \A i \in 1..k : responses[i].kind = "429"
    /\ responses[k + 1].kind = "ok"

\* C1: when the first k < max_retries responses are 429 and the next one is a 2xx,
\* the fetcher has slept exactly k times, for 2^0, ..., 2^(k-1) in that order, has
\* issued exactly k+1 GETs and has returned the JSON body of the 2xx response.
C1_SuccessAfterRateLimiting ==
    \A k \in 0..Len(responses) :
        (k < max_retries /\ RateLimitedThenOk(k)) =>
            /\ FetchReturned
            /\ exit_code = << >>
            /\ sleeps = [i \in 1..k |-> 2 ^ (i - 1)]
            /\ gets = k + 1
            /\ data = responses[k + 1].body

\* the case [429, 429, 200] of a call with max_retries = 3
C1_Witness ==
    /\ max_retries = 3
    /\ RateLimitedThenOk(2)
    /\ FetchReturned
    /\ sleeps = <<1, 2>>
    /\ data = [items |-> <<Fire1, Fire2>>]

\* every attempt the retry budget allows has failed
AllAttemptsFailed ==
    /\ Len(responses) = max_retries
    /\ \A i \in 1..Len(responses) : responses[i].kind \in {"429"} \cup ErrorKinds

\* C2: after max_retries consecutive failing responses (429 or transport-level
\* error) exactly max_retries GETs were issued, never more; the call then returns
\* None, no exception escapes, and every call terminates.
C2_Exhaustion ==
    /\ [](gets <= max_retries)
    /\ [](AllAttemptsFailed =>
            /\ gets = max_retries
            /\ exit_code = << >>
            /\ (FetchReturned => data = NoneObj))
    /\ [](AllAttemptsFailed => <>(FetchReturned /\ data = NoneObj /\ gets = max_retries))
    /\ <>FetchReturned

\* three failures of mixed kinds exhaust a budget of three
C2_Witness ==
    /\ max_retries = 3
    /\ AllAttemptsFailed
    /\ FetchReturned
    /\ \E i, j \in 1..3 : responses[i].kind = "429" /\ responses[j].kind = "exception"
    /\ gets = 3
    /\ data = NoneObj

(***************************************************************************)
(* Properties of evaluate_relevance.                                       *)
(***************************************************************************)
\* the call has returned to its caller (it did not exit the process)
EvalReturned == stack = << >> /\ pc = "returned" /\ exit_code = << >>

Present(image, key) == key \in DOMAIN image /\ image[key] \notin {None, ""}

\* the candidate has a link or a thumbnail that is not empty
HasUsableUrl(image) == Present(image, "link") \/ Present(image, "thumbnail")

Resolvable == {i \in 1..Len(images) : HasUsableUrl(images[i])}

\* the result that stands for candidate i
Candidate(i) ==
    [url |-> IF Present(images[i], "link") THEN images[i].link ELSE images[i].thumbnail,
     description |-> IF "title" \in DOMAIN images[i] THEN images[i].title
                     ELSE NO_DESCRIPTION]

\* the resolvable candidates whose score takes part in the order of floats
Ordered == {i \in Resolvable : scores[i].k \in {"ninf", "num", "pinf"}}

\* those of them no other one exceeds
TopScorers == {i \in Ordered : \A j \in Ordered : ~Gt(scores[j], scores[i])}

First(S) == CHOOSE i \in S : \A j \in S : i <= j

AboveSentinel(i) == Gt(scores[i], NegInf)

\* a comparison of a score equal to the running maximum
EqualScoreStep ==
    /\ pc = "loop" /\ idx' = idx + 1 /\ Len(scores') = Len(scores) + 1
    /\ scores'[Len(scores')].k \in {"ninf", "num", "pinf"}
    /\ ~Gt(scores'[Len(scores')], best_score) /\ ~Gt(best_score, scores'[Len(scores')])

\* C3 as stated: whenever two or more resolvable candidates share the maximal
\* score, the first of them in the input is returned.
C3_TieBreakAnyScore ==
    (EvalReturned /\ Cardinality(TopScorers) >= 2) =>
        best_image = Candidate(First(TopScorers))

\* C3 as amended: whenever two or more resolvable candidates share the maximal
\* score and that score is above negative infinity, the first of them in the input
\* is returned; a later candidate with an equal score never replaces the best.
C3_TieBreak ==
    /\ []((EvalReturned /\ Cardinality(TopScorers) >= 2
              /\ AboveSentinel(First(TopScorers))) =>
            best_image = Candidate(First(TopScorers)))
    /\ [][EqualScoreStep => best_image' = best_image]_vars

\* Fire1 and Fire2 both score 7: Fire1 is returned
C3_Witness ==
    /\ EvalReturned
    /\ images = <<Fire1, Fire2>>
    /\ completions = << <<"7">>, <<"7">> >>
    /\ best_image = [url |-> "http://a/1.jpg", description |-> "Fire1"]

\* C4 as stated: a best image is returned if and only if some candidate has a
\* resolvable URL, whatever the completion texts are.
C4_ImageIffResolvable ==
    EvalReturned => (best_image # NoneObj <=> Resolvable # {})

\* C4 as amended: a best image is returned if and only if some resolvable
\* candidate scored above negative infinity; it carries the URL and the title (or
\* the placeholder) of a resolvable candidate no other one exceeds; without a
\* resolvable URL the result is none.
C4_ImageIffScoredAboveSentinel ==
    EvalReturned =>
        /\ best_image # NoneObj <=> (\E i \in Resolvable : AboveSentinel(i))
        /\ best_image # NoneObj => (\E i \in TopScorers : best_image = Candidate(i))
        /\ Resolvable = {} => best_image = NoneObj

\* a candidate without URL, then one with a thumbnail fallback and an empty title
C4_Witness ==
    /\ EvalReturned
    /\ images = <<NoUrl, EmptyLink>>
    /\ completions[2] = <<"-", "3">>
    /\ best_image = [url |-> "http://t/4.jpg", description |-> ""]

\* completion texts that are no number
MalformedTexts == {<<"h", "i", "g", "h">>, << >>, <<"N", "/", "A">>}

Malformed == {i \in Resolvable : i <= Len(completions) /\ completions[i] \in MalformedTexts}

\* C5: a resolvable candidate whose completion text is no number is scored exactly
\* 0 and nothing is raised; it is returned when it is the only resolvable candidate,
\* and no candidate with a negative score is preferred to it.
C5_MalformedScoreIsZero ==
    /\ \A i \in Malformed : scores[i] = Num(0, 0) /\ exit_code = << >>
    /\ (EvalReturned /\ Malformed # {}) =>
          /\ best_image # NoneObj
          /\ \A i \in Malformed : Resolvable = {i} => best_image = Candidate(i)
          /\ ~Gt(Num(0, 0), best_score)
          /\ \E i \in Resolvable : scores[i] = best_score /\ best_image = Candidate(i)

\* "-3" for Fire1, then "high" for Fire2: Fire2 wins with score 0
C5_Witness ==
    /\ EvalReturned
    /\ images = <<Fire1, Fire2>>
    /\ completions = << <<"-", "3">>, <<"h", "i", "g", "h">> >>
    /\ best_score = Num(0, 0)
    /\ best_image = [url |-> "http://a/2.jpg", description |-> "Fire2"]

\* C6: when no candidate has a truthy link or thumbnail (the empty sequence
\* included), no completion call is made and the result is none.
C6_NoUsableUrl ==
    Resolvable = {} =>
        /\ llm_calls = << >>
        /\ best_image = NoneObj
        /\ \A i \in 1..Len(scores) : scores[i] = Skipped

\* two candidates, one without URL fields and one with an empty link
C6_Witness ==
    /\ EvalReturned
    /\ images = <<NoUrl, BlankUrl>>
    /\ llm_calls = << >>
    /\ best_image = NoneObj

(***************************************************************************)
(* Properties of main.                                                     *)
(***************************************************************************)
Missing(v) == v \in {None, ""}

\* the configuration the program must refuse
ConfigurationError ==
    \/ Missing(OPENAI_API_KEY)
    \/ SEARCH_ENGINE \notin {"google", "duckduckgo"}
    \/ SEARCH_ENGINE = "google" /\ (Missing(GOOGLE_API_KEY) \/ Missing(GOOGLE_CSE_ID))
    \/ SEARCH_ENGINE = "duckduckgo" /\ Missing(SERPAPI_API_KEY)

ScoreCalls == {i \in 1..Len(llm_calls) : llm_calls[i].op = "score"}

ScorerInvoked ==
    \/ \E i \in 1..Len(stack) : stack[i] = "evaluate_relevance"
    \/ ScoreCalls # {}
    \/ scores # << >>
    \/ pc = "best"

NoImagesReport == [outcome |-> "no_images"]

NoRelevantReport == [outcome |-> "no_relevant"]

\* C7: with OPENAI_API_KEY missing, SEARCH_ENGINE neither 'google' nor
\* 'duckduckgo', or a credential of the selected provider missing, the process does
\* nothing but exit with status 1: no GET, no completion call, no read of the news
\* text and no report come before or after.
C7_ConfigErrorsFatalFirst ==
    /\ [](ConfigurationError =>
            /\ pc = "config" /\ stack = <<"main">>
            /\ exit_code \in {<< >>, <<1>>}
            /\ gets = 0 /\ sleeps = << >>
            /\ llm_calls = << >>
            /\ text = None
            /\ reports = << >>)
    /\ [][ConfigurationError => exit_code' = <<1>>]_vars

\* OPENAI_API_KEY is missing and everything else is configured
C7_Witness ==
    /\ OPENAI_API_KEY = None
    /\ SEARCH_ENGINE = "google" /\ GOOGLE_API_KEY = "key" /\ GOOGLE_CSE_ID = "key"
    /\ SERPAPI_API_KEY = "key"
    /\ exit_code = <<1>>
    /\ gets = 0 /\ llm_calls = << >>

\* the key under which the selected provider lists its results
ResultKey == IF SEARCH_ENGINE = "google" THEN "items" ELSE "images_results"

\* the provider answered, with no item
ZeroItems == data # NoneObj /\ (ResultKey \notin DOMAIN data \/ data[ResultKey] = << >>)

\* C8: after a provider response with zero items the adapter returns the empty
\* sequence, main reports "no images found" and stops; evaluate_relevance is never
\* invoked and no scoring completion call is made.
C8_EmptySearchShortCircuits ==
    /\ [](ZeroItems =>
            /\ images = << >>
            /\ ~ScorerInvoked
            /\ pc = "done" => (reports = <<NoImagesReport>> /\ exit_code = <<0>>))
    /\ [][(ZeroItems /\ In("main", "images")) =>
            (pc' = "done" /\ reports' = <<NoImagesReport>>)]_vars

\* provider B answers with an empty result list
C8_Witness ==
    /\ SEARCH_ENGINE = "duckduckgo"
    /\ data = [images_results |-> << >>]
    /\ pc = "done"
    /\ reports = <<NoImagesReport>>
    /\ ~ScorerInvoked

\* one of the three outcomes main can print
IsOutcome(r) ==
    \/ r = NoImagesReport
    \/ r = NoRelevantReport
    \/ /\ DOMAIN r = {"outcome", "url", "description"}
       /\ r.outcome = "success"
       /\ r.url \notin {None, ""}

FetchFailed == gets = 5 /\ Len(sleeps) = 5

FiniteTexts == {<<"7">>, <<" ", "9", "\n">>, <<"-", "3">>}

\* the search returned candidates that all have a link and a title, and every
\* completion of the scoring prompt was a finite number
AllLinkedAndFinite ==
    /\ images # << >>
    /\ Len(completions) = Len(images)
    /\ \A i \in 1..Len(images) :
          /\ Present(images[i], "link")
          /\ "title" \in DOMAIN images[i]
          /\ completions[i] \in FiniteTexts

\* C11: when the search returns a non-empty list whose candidates all have a link
\* and a title and every score text is a finite number, the run ends with the
\* success report of the link and the title of the candidate with the highest
\* score (the first of them when several share it).
C11_EndToEndSelection ==
    (pc = "done" /\ AllLinkedAndFinite) =>
        /\ TopScorers # {}
        /\ reports =
              << [outcome |-> "success",
                  url |-> images[First(TopScorers)].link,
                  description |-> images[First(TopScorers)].title] >>
        /\ exit_code = <<0>>

\* provider A returns Fire1 and Fire2, scored 7 and 9: Fire2 is reported
C11_Witness ==
    /\ pc = "done"
    /\ SEARCH_ENGINE = "google"
    /\ text = "Wildfires spread across the region"
    /\ images = <<Fire1, Fire2>>
    /\ completions = << <<"7">>, <<" ", "9", "\n">> >>
    /\ reports = << [outcome |-> "success", url |-> "http://a/2.jpg",
                     description |-> "Fire2"] >>

\* the stage the run is in: 1 ConfigCheck, 2 ExtractKeywords, 3 Search, 4 Score,
\* 5 Report (the run has ended), 0 after the fatal exit
Stage ==
    IF exit_code = <<1>> THEN 0
    ELSE IF pc = "done" THEN 5
    ELSE IF Top = "evaluate_relevance" \/ (Top = "main" /\ pc = "best") THEN 4
    ELSE IF Top = "main" /\ pc = "config" THEN 1
    ELSE IF Top = "main" /\ pc \in {"input", "extract"} THEN 2
    ELSE 3

KeywordCalls == {i \in 1..Len(llm_calls) : llm_calls[i].op = "keywords"}

\* C12: the stages follow one another in the order ConfigCheck, ExtractKeywords,
\* Search, Score, Report: a step stays in its stage, moves to the next one, or
\* short-circuits forward to Report (or, from ConfigCheck, to the fatal exit); no
\* stage is entered twice.  The keyword completion precedes every GET, every GET
\* precedes every scoring completion, and the report follows all of them.
C12_StageOrdering ==
    /\ [][\/ Stage' = Stage
          \/ Stage' = Stage + 1
          \/ Stage' = 5 /\ Stage \in {3, 4}
          \/ Stage' = 0 /\ Stage = 1]_vars
    /\ [][Len(llm_calls') > Len(llm_calls) /\ llm_calls'[Len(llm_calls')].op = "keywords" =>
            (llm_calls = << >> /\ gets = 0 /\ reports = << >> /\ Stage = 2)]_vars
    /\ [][gets' > gets =>
            (Stage = 3 /\ Cardinality(KeywordCalls) = 1 /\ ScoreCalls = {}
                /\ scores = << >> /\ reports = << >>)]_vars
    /\ [][Len(llm_calls') > Len(llm_calls) /\ llm_calls'[Len(llm_calls')].op = "score" =>
            (Stage = 4 /\ gets' = gets /\ gets >= 1 /\ Cardinality(KeywordCalls) = 1
                /\ reports = << >>)]_vars
    /\ [][reports' # reports =>
            (reports = << >> /\ Stage' = 5 /\ Cardinality(KeywordCalls) = 1
                /\ gets >= 1 /\ gets' = gets /\ llm_calls' = llm_calls)]_vars
    /\ [][Stage = 5 => UNCHANGED <<gets, llm_calls, reports, sleeps>>]_vars
    /\ [](Stage = 4 => images # << >>)

\* a run that went through all five stages, with two GETs and two scoring calls
C12_Witness ==
    /\ Stage = 5
    /\ gets = 2
    /\ Cardinality(KeywordCalls) = 1
    /\ Cardinality(ScoreCalls) = 2
    /\ Len(reports) = 1
    /\ reports[1].outcome = "success"

(***************************************************************************)
(* Properties of the calls evaluate_relevance makes.                       *)
(***************************************************************************)
\* the usable URLs of the first n candidates, in input order
RECURSIVE UrlsOfPrefix(_)
UrlsOfPrefix(n) ==
    IF n = 0 THEN << >>
    ELSE IF HasUsableUrl(images[n])
         THEN Append(UrlsOfPrefix(n - 1), Candidate(n).url)
         ELSE UrlsOfPrefix(n - 1)

\* the URLs embedded in the prompts of the completion calls, in call order
PromptUrls == [j \in 1..Len(llm_calls) |-> llm_calls[j].image_url]

\* C13: evaluate_relevance makes one completion call per candidate with a
\* resolvable URL and none for a skipped one, in input order, each with the news
\* text; it makes no second call for a candidate and does not stop early: when it
\* returns, every candidate was visited and the URLs of the prompts are the input
\* sequence filtered to resolvable URLs.
C13_OneCallPerResolvable ==
    /\ [](/\ Len(scores) <= Len(images)
          /\ PromptUrls = UrlsOfPrefix(Len(scores))
          /\ \A j \in 1..Len(llm_calls) :
                llm_calls[j].op = "score" /\ llm_calls[j].text = text
          /\ \A i \in 1..Len(scores) : scores[i] = Skipped <=> i \notin Resolvable)
    /\ [](EvalReturned =>
            (Len(scores) = Len(images) /\ Len(llm_calls) = Cardinality(Resolvable)))
    /\ [][Len(llm_calls') \in {Len(llm_calls), Len(llm_calls) + 1}
            /\ Len(scores') >= Len(scores)
            /\ (Len(llm_calls') > Len(llm_calls) => Len(scores') = Len(scores) + 1)]_vars

\* a linked candidate scored 9 (a high score), then a thumbnail-only
\* candidate: two calls, in input order
C13_Witness ==
    /\ EvalReturned
    /\ images = <<Fire2, ThumbOnly>>
    /\ completions[1] = <<" ", "9", "\n">>
    /\ PromptUrls = <<"http://a/2.jpg", "http://t/3.jpg">>

(***************************************************************************)
(* Properties of the backoff schedule.                                     *)
(***************************************************************************)
\* the positions of the failed attempts among the responses of the call
FailedResponses == {i \in 1..Len(responses) : responses[i].kind # "ok"}

\* C14: whatever mix of 429 statuses and transport-level errors (non-2xx statuses
\* other than 429 included) the attempts meet, the sleep after the failed attempt
\* of 0-based index i lasts 2^i; both kinds use up the same budget of max_retries
\* attempts, and a 2xx on an attempt within the budget returns its body.
C14_UniformBackoff ==
    /\ Len(responses) <= max_retries
    /\ attempt = Cardinality(FailedResponses)
    /\ \A i \in FailedResponses :
          /\ i <= Len(sleeps)
          /\ sleeps[i] = 2 ^ (i - 1)
          /\ \A j \in 1..(i - 1) : j \in FailedResponses
    /\ \A i \in 1..Len(responses) :
          responses[i].kind = "ok" =>
              /\ i = Len(responses)
              /\ FetchReturned
              /\ data = responses[i].body

\* a 429, a transport error and an HTTP error, then a 2xx on the fourth attempt
C14_Witness ==
    /\ max_retries = 4
    /\ Len(responses) = 4
    /\ responses[1].kind = "429"
    /\ responses[2].kind = "exception"
    /\ responses[3].kind = "http_error"
    /\ responses[4].kind = "ok"
    /\ sleeps = <<1, 2, 4>>
    /\ data = responses[4].body

(***************************************************************************)
(* Properties of the configuration check.                                  *)
(***************************************************************************)
Set(v) == v \notin {None, ""}

\* the configurations the check is to accept
Accepted ==
    /\ Set(OPENAI_API_KEY)
    /\ \/ SEARCH_ENGINE = "google" /\ Set(GOOGLE_API_KEY) /\ Set(GOOGLE_CSE_ID)
       \/ SEARCH_ENGINE = "duckduckgo" /\ Set(SERPAPI_API_KEY)

\* the adapters that were called, judged by the call stack and by the URL fetched
GoogleCalled ==
    \/ \E i \in 1..Len(stack) : stack[i] = "search_images_google"
    \/ url = "https://www.googleapis.com/customsearch/v1"

DuckDuckGoCalled ==
    \/ \E i \in 1..Len(stack) : stack[i] = "search_images_duckduckgo"
    \/ url = "https://serpapi.com/search"

\* C15: the configuration check passes if and only if OPENAI_API_KEY is set and
\* either SEARCH_ENGINE is 'google' with GOOGLE_API_KEY and GOOGLE_CSE_ID set, or
\* it is 'duckduckgo' with SERPAPI_API_KEY set; the credentials of the other
\* provider play no part, and only the adapter of the selected provider is called.
C15_ConfigAcceptance ==
    /\ []((exit_code # <<1>> /\ pc # "config") => Accepted)
    /\ [](exit_code = <<1>> => ~Accepted)
    /\ [][(pc = "config" /\ Accepted) => (pc' = "input" /\ exit_code' = << >>)]_vars
    /\ [](GoogleCalled => (SEARCH_ENGINE = "google" /\ ~DuckDuckGoCalled))
    /\ [](DuckDuckGoCalled => (SEARCH_ENGINE = "duckduckgo" /\ ~GoogleCalled))
    /\ [](gets > 0 => (GoogleCalled \/ DuckDuckGoCalled))

\* provider B selected and configured, the credentials of provider A unset: the
\* run passes the check and fetches from provider B
C15_Witness ==
    /\ SEARCH_ENGINE = "duckduckgo"
    /\ GOOGLE_API_KEY = None /\ GOOGLE_CSE_ID = None
    /\ DuckDuckGoCalled
    /\ gets > 0
    /\ pc = "done"

(***************************************************************************)
(* Properties of the sleeps of make_request_with_retries.                  *)
(***************************************************************************)
RECURSIVE SumSeq(_)
SumSeq(s) == IF s = << >> THEN 0 ELSE s[Len(s)] + SumSeq(SubSeq(s, 1, Len(s) - 1))

\* C16: the fetcher has slept once per failed attempt at every moment, so when all
\* max_retries attempts fail it also sleeps 2^(max_retries-1) after the last GET,
\* before it returns the failure: it has then slept 2^max_retries - 1 units in
\* all, and no GET follows the last sleep.
C16_TrailingSleep ==
    /\ [](Len(sleeps) = Cardinality(FailedResponses))
    /\ [](AllAttemptsFailed =>
            /\ Len(sleeps) = max_retries
            /\ gets = max_retries
            /\ max_retries > 0 => sleeps[max_retries] = 2 ^ (max_retries - 1)
            /\ SumSeq(sleeps) = 2 ^ max_retries - 1)
    /\ [][AllAttemptsFailed =>
            (gets' = gets /\ sleeps' = sleeps /\ data' = NoneObj /\ pc' = "returned")]_vars
    /\ [][Len(sleeps') > Len(sleeps) => gets' = gets + 1]_vars

\* three failures exhaust a budget of three: sleeps of 1, 2 and 4, seven in all
C16_Witness ==
    /\ max_retries = 3
    /\ AllAttemptsFailed
    /\ FetchReturned
    /\ gets = 3
    /\ sleeps = <<1, 2, 4>>
    /\ SumSeq(sleeps) = 7

(***************************************************************************)
(* Properties of the running maximum of evaluate_relevance.                *)
(***************************************************************************)
\* the result is the pick of candidate i
PickOf(i) ==
    /\ HasUsableUrl(images[i])
    /\ best_image.url =
          (IF Present(images[i], "link") THEN images[i].link ELSE images[i].thumbnail)
    /\ IF "title" \in DOMAIN images[i]
       THEN best_image.description = images[i].title
       ELSE best_image.description = NO_DESCRIPTION

\* C17: after any number of iterations of the scoring loop best_image is none
\* exactly when best_score is still negative infinity.  A best image has a
\* non-empty url, which is the link of an input candidate when that link is truthy
\* and its thumbnail otherwise, and its description is the title of that candidate,
\* the placeholder standing in only for a missing title key.
C17_ResultWellFormed ==
    /\ best_image = NoneObj <=> best_score = NegInf
    /\ best_image # NoneObj =>
          /\ DOMAIN best_image = {"url", "description"}
          /\ best_image.url \notin {None, ""}
          /\ \E i \in 1..Len(scores) : PickOf(i) /\ scores[i] = best_score

\* the winner has an empty link, a thumbnail and an empty title: the thumbnail and
\* the empty title are returned, not the placeholder
C17_Witness ==
    /\ EvalReturned
    /\ images = <<ThumbOnly, EmptyLink>>
    /\ completions = << <<"-", "3">>, <<"7">> >>
    /\ best_score = Num(7, 0)
    /\ best_image = [url |-> "http://t/4.jpg", description |-> ""]

====
